---- MODULE Spec2Model ----
(***************************************************************************)
(* proxmux: the interactive console bridge (src/utils/terminal.ts).        *)
(*                                                                         *)
(* connectTerminal is modelled as the event-driven state machine it is:    *)
(* the closure variables of the promise executor are the state, and every  *)
(* callback (timer, ws "open"/"message"/"close"/"error", stdin "data",     *)
(* stdout "resize") is one atomic action, as on Node's single event loop.  *)
(* The ws socket is the environment: it emits "open" at most once, from    *)
(* CONNECTING; "message" after "open"; "error" followed by "close"; and    *)
(* "close" once, after which it emits nothing.                             *)
(*                                                                         *)
(* The API client (ProxmoxClient: session cache, password authentication,  *)
(* console-ticket and management requests) and the error classification   *)
(* as a function have specifications of their own, ClientSpec and          *)
(* ClassifySpec, over their own variables.                                 *)
(***************************************************************************)
EXTENDS Integers, Sequences, FiniteSets

\* ------------------------------------------------------------------ bounds
MaxChunks == 2   \* stdin chunks delivered to the stdin listener in a run
MaxResizes == 1  \* terminal resize notifications in a run
MaxMsgs == 1     \* inbound socket messages in a run
MaxTicks == 3    \* clock advances in a client run
MaxRequests == 2 \* HTTP requests the client sends in a run
MaxClassify == 3 \* error texts classified in a run
MaxInbound == 3  \* messages delivered to the inbound pump on its own
MaxSaves == 2    \* saveConfig calls in a run
MaxKeys == 3     \* key presses the App handles in a run
MaxNodes == 2    \* nodes getStorage asks
MaxPerNode == 2  \* storages one node reports
MaxItems == 3    \* items in a list view
MaxNavKeys == 3  \* navigation key presses in a run
MaxListChanges == 2 \* list-size changes in a run
MaxChmods == 1   \* permission changes made from outside in a run

\* ------------------------------------------------------------------ inputs
\* Terminal sizes (columns, rows) the local terminal may take.
Dims == {<<80, 24>>, <<120, 40>>}

\* The detach byte Ctrl+\ (terminal.ts:102).
DetachByte == 28

\* stdin chunks: the detach byte alone, a longer (ASCII) chunk holding the
\* detach byte, a 2-byte character, and a 4-byte character (an astral code
\* point, two UTF-16 units).
Chunks ==
  { <<28>>, <<28, 97>>, <<195, 169>>, <<240, 159, 152, 128>> }

\* Inbound socket messages (raw bytes).
Messages == { <<27, 91, 72>> }

\* WebSocket close codes.
CloseCodes == {1000, 1006}

\* err.message of the ws "error" event, as character sequences.
MsgSelfSigned ==
  <<"s","e","l","f"," ","s","i","g","n","e","d"," ",
    "c","e","r","t","i","f","i","c","a","t","e">>
MsgHangUp == <<"s","o","c","k","e","t"," ","h","a","n","g"," ","u","p">>
ErrorTexts == {MsgSelfSigned, MsgHangUp}

\* Texts for the classifier on its own: mixed case, one pattern each, a text
\* that matches both groups, and a refusal worded without the errno name.
MsgEconnrefused ==
  <<"c","o","n","n","e","c","t"," ","E","C","O","N","N","R","E","F","U","S",
    "E","D">>
MsgRefused ==
  <<"C","o","n","n","e","c","t","i","o","n"," ","r","e","f","u","s","e",
    "d">>
MsgUnreachable ==
  <<"N","e","t","w","o","r","k"," ","i","s"," ","u","n","r","e","a","c","h",
    "a","b","l","e">>
MsgTlsRefused ==
  <<"T","L","S"," ","E","C","O","N","N","R","E","F","U","S","E","D">>
MsgUnableToVerify ==
  <<"U","n","a","b","l","e"," ","t","o"," ","v","e","r","i","f","y">>
MsgBadCert == <<"B","a","d"," ","c","e","r","t">>
ClassifyTexts ==
  {MsgSelfSigned, MsgHangUp, MsgEconnrefused, MsgRefused, MsgUnreachable,
   MsgTlsRefused, MsgUnableToVerify, MsgBadCert}

\* ------------------------------------------------------------------ state
VARIABLES
  pc,                 \* "start": executor not run yet; "running": it has run
  isTTY,              \* process.stdin.isTTY
  hasOnError,         \* options.onError is given
  wsState,            \* ws.readyState: NONE (no socket), CONNECTING, OPEN, CLOSING, CLOSED
  isConnected,        \* closure flag, terminal.ts:24
  cleanedUp,          \* closure flag, terminal.ts:25
  connectionTimeout,  \* the closure variable: "null" or "handle"
  timerState,         \* the 10 s timer itself: none, pending, fired, cleared
  stdinHandler,       \* closure variable is non-null
  stdinListening,     \* the handler is registered on process.stdin
  resizeHandler,      \* closure variable is non-null
  resizeListening,    \* the handler is registered on process.stdout
  settleTimer,        \* the 300 ms timer: none, pending, fired
  rawMode,            \* the local terminal is in raw mode
  termDims,           \* <<process.stdout.columns, process.stdout.rows>>
  sent,               \* frames passed to ws.send, in order
  stdout,             \* writes to process.stdout, in order
  stdinLog,           \* chunks the stdin listener got while the socket was OPEN, in order
  nStdin,             \* chunks delivered to the stdin listener so far
  nResizes,           \* resize notifications so far
  nMsgs,              \* inbound messages so far
  effects,            \* how often each cleanup side effect was performed
  onErrorCalls,       \* arguments of the onError calls, in order
  promise             \* the promise returned by connectTerminal

\* The API client and its surroundings.
VARIABLES
  skipTlsVerify,      \* config.skipTlsVerify
  now,                \* Date.now(), in minutes
  nTicks,             \* clock advances so far
  disk,               \* the session file
  clientUp,           \* the ProxmoxClient has been constructed
  sessionTicket,      \* this.sessionTicket ("" is undefined)
  csrfToken,          \* this.csrfToken ("" is undefined)
  inflight,           \* the fetch awaiting its response
  requests,           \* the fetch calls made, in order
  lastResult          \* what the last client call returned or threw

\* The classifier run on its own.
VARIABLES
  classLog            \* error texts classified so far, with the results

bridgeVars ==
  << pc, isTTY, hasOnError, wsState, isConnected, cleanedUp, connectionTimeout,
     timerState, stdinHandler, stdinListening, resizeHandler, resizeListening,
     settleTimer, rawMode, termDims, sent, stdout, stdinLog, nStdin, nResizes,
     nMsgs, effects, onErrorCalls, promise >>

clientVars ==
  << skipTlsVerify, now, nTicks, disk, clientUp, sessionTicket, csrfToken,
     inflight, requests, lastResult >>

\* The configuration file and its directory (saveConfig).
VARIABLES
  cfgPlatform,        \* process.platform
  cfgUmask,           \* the process's umask
  cfgDir,             \* CONFIG_DIR: whether it exists, its mode
  cfgFile,            \* CONFIG_FILE: whether it exists, its mode, its content
  nSaves,             \* saveConfig calls so far
  nChmods             \* permission changes made from outside so far

\* The inbound pump of an open console on its own.
VARIABLES
  received            \* the messages the socket delivered, in order

\* The App component's keyboard handling and the modal registry.
VARIABLES
  showHelp,           \* App state showHelp
  appError,           \* App state appError (set or null)
  openModals,         \* ModalProvider state openModals
  currentView,        \* App state currentView
  isEditing,          \* useEditMode().isEditing
  consoleActive,      \* App state consoleActive
  exited,             \* exit() has been called
  nKeys               \* key presses so far

\* getStorage.
VARIABLES
  storResults,        \* what each node's /storage request answers
  storCall,           \* the getStorage call made
  storOut             \* what it returned

\* useKeyboardNavigation.
VARIABLES
  navItemCount,       \* the itemCount prop of the last render
  selectedIndex,      \* the hook's state
  nNavKeys,           \* key presses so far
  nListChanges        \* list-size changes so far

configVars == << cfgPlatform, cfgUmask, cfgDir, cfgFile, nSaves, nChmods >>
pumpVars == << received >>
helpVars ==
  << showHelp, appError, openModals, currentView, isEditing, consoleActive, exited, nKeys >>
storageVars == << storResults, storCall, storOut >>
navVars == << navItemCount, selectedIndex, nNavKeys, nListChanges >>

vars ==
  << bridgeVars, clientVars, classLog, configVars, pumpVars, helpVars, storageVars,
     navVars >>

\* ------------------------------------------------------------- UTF-8, strings
\* Buffer.toString("utf8"): decode to code points, each maximal ill-formed
\* subsequence replaced by U+FFFD.
Utf8Need(b) ==
  IF b < 128 THEN 1
  ELSE IF b >= 194 /\ b <= 223 THEN 2
  ELSE IF b >= 224 /\ b <= 239 THEN 3
  ELSE IF b >= 240 /\ b <= 244 THEN 4
  ELSE 0

Utf8SecondLo(b) == IF b = 224 THEN 160 ELSE IF b = 240 THEN 144 ELSE 128
Utf8SecondHi(b) == IF b = 237 THEN 159 ELSE IF b = 244 THEN 143 ELSE 191

Utf8ContOk(bytes, i) ==
  /\ i <= Len(bytes)
  /\ IF i = 2
       THEN bytes[i] >= Utf8SecondLo(bytes[1]) /\ bytes[i] <= Utf8SecondHi(bytes[1])
       ELSE bytes[i] >= 128 /\ bytes[i] <= 191

\* Length of the longest well-formed prefix of the sequence starting at
\* bytes[1], at most n bytes, at least 1.
RECURSIVE Utf8Prefix(_, _, _)
Utf8Prefix(bytes, n, k) ==
  IF k < n /\ Utf8ContOk(bytes, k + 1) THEN Utf8Prefix(bytes, n, k + 1) ELSE k

Utf8CodePoint(bytes, n) ==
  IF n = 1 THEN bytes[1]
  ELSE IF n = 2 THEN (bytes[1] - 192) * 64 + (bytes[2] - 128)
  ELSE IF n = 3 THEN (bytes[1] - 224) * 4096 + (bytes[2] - 128) * 64 + (bytes[3] - 128)
  ELSE (bytes[1] - 240) * 262144 + (bytes[2] - 128) * 4096
         + (bytes[3] - 128) * 64 + (bytes[4] - 128)

RECURSIVE Utf8Decode(_)
Utf8Decode(bytes) ==
  IF bytes = <<>> THEN <<>>
  ELSE LET n == Utf8Need(bytes[1])
           k == IF n = 0 THEN 1 ELSE Utf8Prefix(bytes, n, 1)
       IN  IF n >= 1 /\ k = n
             THEN <<Utf8CodePoint(bytes, n)>> \o Utf8Decode(SubSeq(bytes, n + 1, Len(bytes)))
             ELSE <<65533>> \o Utf8Decode(SubSeq(bytes, k + 1, Len(bytes)))

\* String.prototype.length: the number of UTF-16 code units.
RECURSIVE JsLength(_)
JsLength(str) ==
  IF str = <<>> THEN 0
  ELSE (IF str[1] > 65535 THEN 2 ELSE 1) + JsLength(Tail(str))

\* ws.send(string): the bytes put on the wire are the string's UTF-8 encoding.
Utf8EncodeOne(cp) ==
  IF cp < 128 THEN <<cp>>
  ELSE IF cp < 2048 THEN <<192 + (cp \div 64), 128 + (cp % 64)>>
  ELSE IF cp < 65536
    THEN <<224 + (cp \div 4096), 128 + ((cp \div 64) % 64), 128 + (cp % 64)>>
  ELSE <<240 + (cp \div 262144), 128 + ((cp \div 4096) % 64),
         128 + ((cp \div 64) % 64), 128 + (cp % 64)>>

RECURSIVE Utf8Encode(_)
Utf8Encode(str) ==
  IF str = <<>> THEN <<>> ELSE Utf8EncodeOne(str[1]) \o Utf8Encode(Tail(str))

Utf8ByteLength(str) == Len(Utf8Encode(str))

\* ------------------------------------------------------------------ frames
NoDims == <<0, 0>>

AuthFrame ==
  [kind |-> "auth", text |-> <<"user", ":", "ticket", "\n">>,
   len |-> 0, payload |-> <<>>, dims |-> NoDims]

\* `0:${str.length}:${str}` with str = data.toString("utf8")
DataFrame(chunk) ==
  LET str == Utf8Decode(chunk)
  IN  [kind |-> "data", text |-> <<>>, len |-> JsLength(str), payload |-> str,
       dims |-> NoDims]

\* `1:${cols}:${rows}:`
ResizeFrame(dims) ==
  [kind |-> "resize", text |-> <<>>, len |-> 0, payload |-> <<>>, dims |-> dims]

\* ------------------------------------------------------------------ errors
NoError == [text |-> "", msg |-> <<>>, code |-> 0]
TimeoutError == [text |-> "Connection timed out after 10 seconds.", msg |-> <<>>, code |-> 0]
TlsError ==
  [text |-> "TLS certificate error - your Proxmox server likely uses a self-signed certificate.\n\nTo fix this, re-run 'proxmux --config' and answer 'y' to skip TLS verification.",
   msg |-> <<>>, code |-> 0]
RefusedError ==
  [text |-> "Connection refused - is Proxmox running at the configured host?",
   msg |-> <<>>, code |-> 0]
\* `WebSocket failed (code: ${code})`
WsFailedError(code) == [text |-> "WebSocket failed (code: )", msg |-> <<>>, code |-> code]
\* `WebSocket error: ${err.message}`
WsOtherError(msg) == [text |-> "WebSocket error: ", msg |-> msg, code |-> 0]
ThrownError == [text |-> "Failed to connect", msg |-> <<>>, code |-> 0]

UpperCase ==
  <<"A","B","C","D","E","F","G","H","I","J","K","L","M",
    "N","O","P","Q","R","S","T","U","V","W","X","Y","Z">>
LowerCase ==
  <<"a","b","c","d","e","f","g","h","i","j","k","l","m",
    "n","o","p","q","r","s","t","u","v","w","x","y","z">>

LowerChar(c) ==
  IF \E i \in 1..26 : UpperCase[i] = c
    THEN LowerCase[CHOOSE i \in 1..26 : UpperCase[i] = c]
    ELSE c

ToLowerCase(s) == [i \in 1..Len(s) |-> LowerChar(s[i])]

Includes(s, p) ==
  \E i \in 1..(Len(s) - Len(p) + 1) : SubSeq(s, i, i + Len(p) - 1) = p

PatCert == <<"c","e","r","t">>
PatSsl == <<"s","s","l">>
PatTls == <<"t","l","s">>
PatSelfSigned == <<"s","e","l","f"," ","s","i","g","n","e","d">>
PatUnableToVerify == <<"u","n","a","b","l","e"," ","t","o"," ","v","e","r","i","f","y">>
PatEconnrefused == <<"e","c","o","n","n","r","e","f","u","s","e","d">>
PatUnreachable == <<"u","n","r","e","a","c","h","a","b","l","e">>

\* Mutant of the classification: the refused test comes first.
ClassifyError_RefusedFirst(message) ==
  LET msg == ToLowerCase(message)
  IN  IF Includes(msg, PatEconnrefused) \/ Includes(msg, PatUnreachable)
        THEN RefusedError
      ELSE IF Includes(msg, PatCert) \/ Includes(msg, PatSsl) \/ Includes(msg, PatTls)
           \/ Includes(msg, PatSelfSigned) \/ Includes(msg, PatUnableToVerify)
        THEN TlsError
      ELSE WsOtherError(message)

\* The classification in the ws "error" handler.
ClassifyError(message) ==
  LET msg == ToLowerCase(message)
  IN  IF Includes(msg, PatCert) \/ Includes(msg, PatSsl) \/ Includes(msg, PatTls)
           \/ Includes(msg, PatSelfSigned) \/ Includes(msg, PatUnableToVerify)
        THEN TlsError
      ELSE IF Includes(msg, PatEconnrefused) \/ Includes(msg, PatUnreachable)
        THEN RefusedError
      ELSE WsOtherError(message)

\* ------------------------------------------------------------------ promise
Pending == [state |-> "pending", error |-> NoError]

\* resolve() and reject(e) of a promise: the first call settles it, later
\* calls are ignored.
Resolve(p) == IF p.state = "pending" THEN [state |-> "resolved", error |-> NoError] ELSE p
Reject(p, e) == IF p.state = "pending" THEN [state |-> "rejected", error |-> e] ELSE p

\* ------------------------------------------------------------------ stdout
Ctl(t) == [kind |-> "ctl", text |-> t, bytes |-> <<>>]
Out(bytes) == [kind |-> "msg", text |-> "", bytes |-> bytes]

\* ------------------------------------------------------------------ Init
NoEffects == [cooked |-> 0, stdinOff |-> 0, resizeOff |-> 0, reset |-> 0]

\* The session file before the client starts: missing, unreadable, or the
\* session an earlier run saved at time 0.
AbsentFile ==
  [kind |-> "absent", ticket |-> "", csrfToken |-> "", username |-> "", timestampMs |-> 0]
CorruptFile ==
  [kind |-> "corrupt", ticket |-> "", csrfToken |-> "", username |-> "", timestampMs |-> 0]

NoInflight == [op |-> "none", path |-> "", ticket |-> ""]
NoResult ==
  [op |-> "none", outcome |-> "none", error |-> "", status |-> 0, body |-> "",
   ticket |-> "", csrfToken |-> "", at |-> 0]

\* The client not started.
ClientIdle ==
  /\ skipTlsVerify = FALSE
  /\ now = 0
  /\ nTicks = 0
  /\ disk = AbsentFile
  /\ clientUp = FALSE
  /\ sessionTicket = ""
  /\ csrfToken = ""
  /\ inflight = NoInflight
  /\ requests = <<>>
  /\ lastResult = NoResult

ClassifyIdle == classLog = <<>>

\* A path that does not exist.
NoEntry == [exists |-> FALSE, mode |-> 0, content |-> ""]

\* saveConfig never called.
ConfigIdle ==
  /\ cfgPlatform = "linux"
  /\ cfgUmask = 0
  /\ cfgDir = NoEntry
  /\ cfgFile = NoEntry
  /\ nSaves = 0
  /\ nChmods = 0

PumpIdle == received = <<>>

\* The App not mounted.
HelpIdle ==
  /\ showHelp = FALSE
  /\ appError = FALSE
  /\ openModals = {}
  /\ currentView = "dashboard"
  /\ isEditing = FALSE
  /\ consoleActive = FALSE
  /\ exited = FALSE
  /\ nKeys = 0

StorageIdle ==
  /\ storResults = <<>>
  /\ storCall = "none"
  /\ storOut = <<>>

NavIdle ==
  /\ navItemCount = 0
  /\ selectedIndex = 0
  /\ nNavKeys = 0
  /\ nListChanges = 0

Init ==
  /\ ClientIdle
  /\ ClassifyIdle
  /\ ConfigIdle
  /\ PumpIdle
  /\ HelpIdle
  /\ StorageIdle
  /\ NavIdle
  /\ pc = "start"
  /\ isTTY \in BOOLEAN
  /\ hasOnError \in BOOLEAN
  /\ wsState = "NONE"
  /\ isConnected = FALSE
  /\ cleanedUp = FALSE
  /\ connectionTimeout = "null"
  /\ timerState = "none"
  /\ stdinHandler = FALSE
  /\ stdinListening = FALSE
  /\ resizeHandler = FALSE
  /\ resizeListening = FALSE
  /\ settleTimer = "none"
  /\ rawMode = FALSE
  /\ termDims = <<80, 24>>
  /\ sent = <<>>
  /\ stdout = <<>>
  /\ stdinLog = <<>>
  /\ nStdin = 0
  /\ nResizes = 0
  /\ nMsgs = 0
  /\ effects = NoEffects
  /\ onErrorCalls = <<>>
  /\ promise = Pending

\* ------------------------------------------------------------------ cleanup
\* cleanup(), called when the closure variable connectionTimeout holds ct and
\* the 10 s timer is in state timerNow.
Cleanup(ct, timerNow) ==
  IF cleanedUp
    THEN /\ timerState' = timerNow
         /\ UNCHANGED <<cleanedUp, stdinListening, resizeListening, rawMode, stdout, effects>>
    ELSE /\ cleanedUp' = TRUE
         /\ timerState' = IF ct # "null" /\ timerNow = "pending" THEN "cleared" ELSE timerNow
         /\ stdinListening' = IF stdinHandler THEN FALSE ELSE stdinListening
         /\ resizeListening' = IF resizeHandler THEN FALSE ELSE resizeListening
         /\ rawMode' = IF isTTY THEN FALSE ELSE rawMode
         /\ stdout' = Append(stdout, Ctl("RESET_TITLE_SHOW_CURSOR"))
         /\ effects' =
              [cooked |-> effects.cooked + (IF isTTY THEN 1 ELSE 0),
               stdinOff |-> effects.stdinOff + (IF stdinHandler THEN 1 ELSE 0),
               resizeOff |-> effects.resizeOff + (IF resizeHandler THEN 1 ELSE 0),
               reset |-> effects.reset + 1]

\* handleError(error)
HandleError(error, ct, timerNow) ==
  /\ Cleanup(ct, timerNow)
  /\ onErrorCalls' = IF hasOnError THEN Append(onErrorCalls, error) ELSE onErrorCalls
  /\ promise' = Reject(promise, error)

\* ------------------------------------------------------------------ actions
\* The promise executor: start the 10 s timer, build the options, construct
\* the WebSocket; a throw goes to the catch clause.
Connect(throws) ==
  /\ pc = "start"
  /\ pc' = "running"
  /\ connectionTimeout' = "handle"
  /\ IF throws
       THEN /\ HandleError(ThrownError, "handle", "pending")
            /\ UNCHANGED wsState
       ELSE /\ wsState' = "CONNECTING"
            /\ timerState' = "pending"
            /\ UNCHANGED <<cleanedUp, stdinListening, resizeListening, rawMode, stdout,
                           effects, onErrorCalls, promise>>
  /\ UNCHANGED <<isTTY, hasOnError, isConnected, stdinHandler, resizeHandler,
                 settleTimer, termDims, sent, stdinLog, nStdin, nResizes, nMsgs>>

\* The callback of the 10 s timer. It calls nothing on ws: the socket stays
\* as it is, and its "open", "error" and "close" handlers can still run.
ConnectTimerFire ==
  /\ timerState = "pending"
  /\ IF ~isConnected
       THEN HandleError(TimeoutError, connectionTimeout, "fired")
       ELSE /\ timerState' = "fired"
            /\ UNCHANGED <<cleanedUp, stdinListening, resizeListening, rawMode, stdout,
                           effects, onErrorCalls, promise>>
  /\ UNCHANGED <<pc, isTTY, hasOnError, wsState, isConnected, connectionTimeout,
                 stdinHandler, resizeHandler, settleTimer, termDims, sent, stdinLog, nStdin,
                 nResizes, nMsgs>>

\* Mutants of the "open" handler: the initial Resize frame sent before the
\* handshake; a Resize frame sent right after the handshake.
WsOpen_ResizeBeforeAuth ==
  /\ wsState = "CONNECTING"
  /\ wsState' = "OPEN"
  /\ isConnected' = TRUE
  /\ timerState' = IF connectionTimeout # "null" /\ timerState = "pending"
                     THEN "cleared" ELSE timerState
  /\ connectionTimeout' = "null"
  /\ rawMode' = IF isTTY THEN TRUE ELSE rawMode
  /\ stdout' = stdout \o <<Ctl("CLEAR_SCREEN"), Ctl("SET_TITLE")>>
  /\ sent' = sent \o <<ResizeFrame(termDims), AuthFrame>>
  /\ stdinHandler' = TRUE
  /\ stdinListening' = TRUE
  /\ resizeHandler' = TRUE
  /\ resizeListening' = TRUE
  /\ settleTimer' = "pending"
  /\ UNCHANGED <<pc, isTTY, hasOnError, cleanedUp, termDims, stdinLog, nStdin, nResizes,
                 nMsgs, effects, onErrorCalls, promise>>

WsOpen_ImmediateResize ==
  /\ wsState = "CONNECTING"
  /\ wsState' = "OPEN"
  /\ isConnected' = TRUE
  /\ timerState' = IF connectionTimeout # "null" /\ timerState = "pending"
                     THEN "cleared" ELSE timerState
  /\ connectionTimeout' = "null"
  /\ rawMode' = IF isTTY THEN TRUE ELSE rawMode
  /\ stdout' = stdout \o <<Ctl("CLEAR_SCREEN"), Ctl("SET_TITLE")>>
  /\ sent' = sent \o <<AuthFrame, ResizeFrame(termDims)>>
  /\ stdinHandler' = TRUE
  /\ stdinListening' = TRUE
  /\ resizeHandler' = TRUE
  /\ resizeListening' = TRUE
  /\ settleTimer' = "pending"
  /\ UNCHANGED <<pc, isTTY, hasOnError, cleanedUp, termDims, stdinLog, nStdin, nResizes,
                 nMsgs, effects, onErrorCalls, promise>>

\* ws.on("open")
WsOpen ==
  /\ wsState = "CONNECTING"
  /\ wsState' = "OPEN"
  /\ isConnected' = TRUE
  /\ timerState' = IF connectionTimeout # "null" /\ timerState = "pending"
                     THEN "cleared" ELSE timerState
  /\ connectionTimeout' = "null"
  /\ rawMode' = IF isTTY THEN TRUE ELSE rawMode
  /\ stdout' = stdout \o <<Ctl("CLEAR_SCREEN"), Ctl("SET_TITLE")>>
  /\ sent' = Append(sent, AuthFrame)
  /\ stdinHandler' = TRUE
  /\ stdinListening' = TRUE
  /\ resizeHandler' = TRUE
  /\ resizeListening' = TRUE
  /\ settleTimer' = "pending"
  /\ UNCHANGED <<pc, isTTY, hasOnError, cleanedUp, termDims, stdinLog, nStdin, nResizes, nMsgs,
                 effects, onErrorCalls, promise>>

\* ws.on("message")
WsMessage(data) ==
  /\ wsState \in {"OPEN", "CLOSING"}
  /\ isConnected
  /\ nMsgs < MaxMsgs
  /\ nMsgs' = nMsgs + 1
  /\ stdout' = Append(stdout, Out(data))
  /\ UNCHANGED <<pc, isTTY, hasOnError, wsState, isConnected, cleanedUp, connectionTimeout,
                 timerState, stdinHandler, stdinListening, resizeHandler, resizeListening,
                 settleTimer, rawMode, termDims, sent, stdinLog, nStdin, nResizes, effects,
                 onErrorCalls, promise>>

\* Mutant of the "close" handler: a close after "open" cleans up and leaves
\* the promise alone.
WsClose_NoResolve(code) ==
  /\ wsState \in {"CONNECTING", "OPEN", "CLOSING"}
  /\ wsState' = "CLOSED"
  /\ IF ~isConnected
       THEN HandleError(WsFailedError(code), connectionTimeout, timerState)
       ELSE /\ Cleanup(connectionTimeout, timerState)
            /\ UNCHANGED <<promise, onErrorCalls>>
  /\ UNCHANGED <<pc, isTTY, hasOnError, isConnected, connectionTimeout, stdinHandler,
                 resizeHandler, settleTimer, termDims, sent, stdinLog, nStdin, nResizes, nMsgs>>

\* ws.on("close")
WsClose(code) ==
  /\ wsState \in {"CONNECTING", "OPEN", "CLOSING"}
  /\ wsState' = "CLOSED"
  /\ IF ~isConnected
       THEN HandleError(WsFailedError(code), connectionTimeout, timerState)
       ELSE /\ Cleanup(connectionTimeout, timerState)
            /\ promise' = Resolve(promise)
            /\ UNCHANGED onErrorCalls
  /\ UNCHANGED <<pc, isTTY, hasOnError, isConnected, connectionTimeout, stdinHandler,
                 resizeHandler, settleTimer, termDims, sent, stdinLog, nStdin, nResizes, nMsgs>>

\* Mutant of the "error" handler: an error after "open" only cleans up, it
\* does not go through handleError.
WsError_NoRejectAfterOpen(message) ==
  /\ wsState \in {"CONNECTING", "OPEN"}
  /\ wsState' = "CLOSING"
  /\ IF isConnected
       THEN /\ Cleanup(connectionTimeout, timerState)
            /\ UNCHANGED <<promise, onErrorCalls>>
       ELSE HandleError(ClassifyError(message), connectionTimeout, timerState)
  /\ UNCHANGED <<pc, isTTY, hasOnError, isConnected, connectionTimeout, stdinHandler,
                 resizeHandler, settleTimer, termDims, sent, stdinLog, nStdin, nResizes, nMsgs>>

\* ws.on("error"): ws moves the socket to CLOSING before it emits "error", and
\* emits "close" afterwards.
WsError(message) ==
  /\ wsState \in {"CONNECTING", "OPEN"}
  /\ wsState' = "CLOSING"
  /\ HandleError(ClassifyError(message), connectionTimeout, timerState)
  /\ UNCHANGED <<pc, isTTY, hasOnError, isConnected, connectionTimeout, stdinHandler,
                 resizeHandler, settleTimer, termDims, sent, stdinLog, nStdin, nResizes, nMsgs>>

\* Mutant of stdinHandler: the readyState test missing, so a chunk is framed
\* and sent whatever the socket's state.
StdinData_IgnoresReadyState(data) ==
  /\ stdinListening
  /\ nStdin < MaxChunks
  /\ nStdin' = nStdin + 1
  /\ stdinLog' = IF wsState = "OPEN" THEN Append(stdinLog, data) ELSE stdinLog
  /\ IF Len(data) = 1 /\ data[1] = DetachByte
       THEN /\ wsState' = IF wsState = "OPEN" THEN "CLOSING" ELSE wsState
            /\ UNCHANGED sent
       ELSE /\ sent' = Append(sent, DataFrame(data))
            /\ UNCHANGED wsState
  /\ UNCHANGED <<pc, isTTY, hasOnError, isConnected, cleanedUp, connectionTimeout,
                 timerState, stdinHandler, stdinListening, resizeHandler, resizeListening,
                 settleTimer, rawMode, termDims, stdout, nResizes, nMsgs, effects,
                 onErrorCalls, promise>>

\* Mutants of stdinHandler: the `return` after ws.close() missing, so the
\* detach byte is forwarded too; the detach test done on any chunk that holds
\* the byte.
StdinData_ForwardsDetach(data) ==
  /\ stdinListening
  /\ nStdin < MaxChunks
  /\ nStdin' = nStdin + 1
  /\ IF wsState = "OPEN"
       THEN /\ stdinLog' = Append(stdinLog, data)
            /\ wsState' = IF Len(data) = 1 /\ data[1] = DetachByte
                             THEN "CLOSING" ELSE wsState
            /\ sent' = Append(sent, DataFrame(data))
       ELSE UNCHANGED <<wsState, sent, stdinLog>>
  /\ UNCHANGED <<pc, isTTY, hasOnError, isConnected, cleanedUp, connectionTimeout,
                 timerState, stdinHandler, stdinListening, resizeHandler, resizeListening,
                 settleTimer, rawMode, termDims, stdout, nResizes, nMsgs, effects,
                 onErrorCalls, promise>>

StdinData_DetachAnywhere(data) ==
  /\ stdinListening
  /\ nStdin < MaxChunks
  /\ nStdin' = nStdin + 1
  /\ IF wsState = "OPEN"
       THEN /\ stdinLog' = Append(stdinLog, data)
            /\ IF \E i \in 1..Len(data) : data[i] = DetachByte
                 THEN /\ wsState' = "CLOSING"
                      /\ UNCHANGED sent
                 ELSE /\ sent' = Append(sent, DataFrame(data))
                      /\ UNCHANGED wsState
       ELSE UNCHANGED <<wsState, sent, stdinLog>>
  /\ UNCHANGED <<pc, isTTY, hasOnError, isConnected, cleanedUp, connectionTimeout,
                 timerState, stdinHandler, stdinListening, resizeHandler, resizeListening,
                 settleTimer, rawMode, termDims, stdout, nResizes, nMsgs, effects,
                 onErrorCalls, promise>>

\* stdinHandler(data), called for a chunk read from stdin while the listener
\* is registered.
StdinData(data) ==
  /\ stdinListening
  /\ nStdin < MaxChunks
  /\ nStdin' = nStdin + 1
  /\ IF wsState = "OPEN"
       THEN /\ stdinLog' = Append(stdinLog, data)
            /\ IF Len(data) = 1 /\ data[1] = DetachByte
                 THEN /\ wsState' = "CLOSING"
                      /\ UNCHANGED sent
                 ELSE /\ sent' = Append(sent, DataFrame(data))
                      /\ UNCHANGED wsState
       ELSE UNCHANGED <<wsState, sent, stdinLog>>
  /\ UNCHANGED <<pc, isTTY, hasOnError, isConnected, cleanedUp, connectionTimeout,
                 timerState, stdinHandler, stdinListening, resizeHandler, resizeListening,
                 settleTimer, rawMode, termDims, stdout, nResizes, nMsgs, effects,
                 onErrorCalls, promise>>

\* Mutant of resizeHandler: the dimensions read when the listener was set up
\* (a stale copy) are sent instead of the current ones.
TermResize_StaleDims(dims) ==
  /\ pc = "running"
  /\ dims # termDims
  /\ nResizes < MaxResizes
  /\ nResizes' = nResizes + 1
  /\ termDims' = dims
  /\ sent' = IF resizeListening /\ wsState = "OPEN"
               THEN Append(sent, ResizeFrame(termDims))
               ELSE sent
  /\ UNCHANGED <<pc, isTTY, hasOnError, wsState, isConnected, cleanedUp, connectionTimeout,
                 timerState, stdinHandler, stdinListening, resizeHandler, resizeListening,
                 settleTimer, rawMode, stdout, stdinLog, nStdin, nMsgs, effects, onErrorCalls,
                 promise>>

\* The terminal is resized to dims: process.stdout.columns/rows change, then
\* "resize" is emitted and resizeHandler runs if it is registered.
TermResize(dims) ==
  /\ pc = "running"
  /\ dims # termDims
  /\ nResizes < MaxResizes
  /\ nResizes' = nResizes + 1
  /\ termDims' = dims
  /\ sent' = IF resizeListening /\ wsState = "OPEN"
               THEN Append(sent, ResizeFrame(dims))
               ELSE sent
  /\ UNCHANGED <<pc, isTTY, hasOnError, wsState, isConnected, cleanedUp, connectionTimeout,
                 timerState, stdinHandler, stdinListening, resizeHandler, resizeListening,
                 settleTimer, rawMode, stdout, stdinLog, nStdin, nMsgs, effects, onErrorCalls,
                 promise>>

\* The callback of the 300 ms timer set in the "open" handler.
SettleTimerFire ==
  /\ settleTimer = "pending"
  /\ settleTimer' = "fired"
  /\ sent' = IF wsState = "OPEN" THEN Append(sent, ResizeFrame(termDims)) ELSE sent
  /\ UNCHANGED <<pc, isTTY, hasOnError, wsState, isConnected, cleanedUp, connectionTimeout,
                 timerState, stdinHandler, stdinListening, resizeHandler, resizeListening,
                 rawMode, termDims, stdout, stdinLog, nStdin, nResizes, nMsgs, effects,
                 onErrorCalls, promise>>

\* A step of the bridge leaves the API client and the classifier run alone.
OthersIdle ==
  UNCHANGED <<clientVars, classLog, configVars, pumpVars, helpVars, storageVars, navVars>>

Next ==
  \/ (\E throws \in BOOLEAN : Connect(throws)) /\ OthersIdle
  \/ ConnectTimerFire /\ OthersIdle
  \/ WsOpen /\ OthersIdle
  \/ (\E data \in Messages : WsMessage(data)) /\ OthersIdle
  \/ (\E code \in CloseCodes : WsClose(code)) /\ OthersIdle
  \/ (\E message \in ErrorTexts : WsError(message)) /\ OthersIdle
  \/ (\E data \in Chunks : StdinData(data)) /\ OthersIdle
  \/ (\E dims \in Dims : TermResize(dims)) /\ OthersIdle
  \/ SettleTimerFire /\ OthersIdle

Spec == Init /\ [][Next]_vars

\* Node fires a timer that stays pending: the 10 s connect timer and the
\* 300 ms settle timer are never starved.
FairSpec ==
  /\ Spec
  /\ WF_vars(ConnectTimerFire /\ OthersIdle)
  /\ WF_vars(SettleTimerFire /\ OthersIdle)

\* ------------------------------------------------------------------ helpers
IsResize(f) == f.kind = "resize"
IsData(f) == f.kind = "data"
NotDetach(chunk) == chunk # <<DetachByte>>
DataFrames == SelectSeq(sent, IsData)
ResizeFrames == SelectSeq(sent, IsResize)
HasResize == \E i \in 1..Len(sent) : IsResize(sent[i])
Settled == promise.state # "pending"
TimedOut == promise.state = "rejected" /\ promise.error = TimeoutError
\* The session is over: the promise is settled and the socket is gone (closed,
\* or never constructed because the constructor threw).
SessionOver == Settled /\ wsState \in {"CLOSED", "NONE"}

\* ------------------------------------------------------------------ client
\* ProxmoxClient. Time is counted in minutes; the session file's timestamp
\* (milliseconds in the file) is kept in the same unit.

\* config.user
Username == "root@pam"

\* The session store's time-to-live, in minutes.
SessionTTL == 100

\* The session file an earlier run left behind, saved at time 0.
OldSession ==
  [kind |-> "session", ticket |-> "T0", csrfToken |-> "C0", username |-> Username,
   timestampMs |-> 0]
DiskStates == {AbsentFile, CorruptFile, OldSession}

\* How far the clock moves between two events.
Delays == {1, 99}

\* What the ticket endpoint answers on success (json.data).
AuthResponses ==
  {[ticket |-> "T1", CSRFPreventionToken |-> "C1"],
   [ticket |-> "T2", CSRFPreventionToken |-> "C2"]}
AuthStatuses == {200, 401, 500}
TermProxyStatuses == {200, 401}
\* fetch rejected (no response): the status the model gives a network failure
NetworkFailure == 0
RequestStatuses == {200, 401, 501, 500, NetworkFailure}
\* Who calls request(): a caller that lets its error through (getNodes and
\* the like), or testConnection.
RequestCallers == {"request", "testConnection"}
TermProxyKinds == {"lxc", "qemu"}

\* response.ok
ResponseOk(status) == status >= 200 /\ status <= 299
\* await response.text() of a failed response
ErrorBody == "denied"

\* loadSession(): the stored session, or none (null) when the file is
\* missing or cannot be read as a session.
NoSession ==
  [present |-> FALSE, ticket |-> "", csrfToken |-> "", username |-> "", timestamp |-> 0]
LoadSession(file) ==
  IF file.kind = "session"
    THEN [present |-> TRUE, ticket |-> file.ticket, csrfToken |-> file.csrfToken,
          username |-> file.username, timestamp |-> file.timestampMs]
    ELSE NoSession

\* saveSession(sessionData): the file written.
SaveSession(sessionData) ==
  [kind |-> "session", ticket |-> sessionData.ticket, csrfToken |-> sessionData.csrfToken,
   username |-> sessionData.username, timestampMs |-> sessionData.timestamp]

\* isSessionValid(session) at time t.
IsSessionValid(session, t) == session.present /\ t - session.timestamp < SessionTTL

\* The tls option every fetch of the client is given, and the options of the
\* console WebSocket.
FetchTls == [rejectUnauthorized |-> FALSE]
WsOptions == [rejectUnauthorized |-> FALSE, handshakeTimeout |-> 10000]

\* One fetch / WebSocket construction, as logged in `requests`.
HttpRequest(op, path, authorization, cookie, csrf, rejectUnauthorized) ==
  [op |-> op, path |-> path, authorization |-> authorization, cookie |-> cookie,
   csrf |-> csrf, rejectUnauthorized |-> rejectUnauthorized]

\* What a call returned or threw, with the response status it saw and the
\* time of the call; `body` is the response text when the message carries it.
Result(op, outcome, error, status, body, ticket, csrf) ==
  [op |-> op, outcome |-> outcome, error |-> error, status |-> status, body |-> body,
   ticket |-> ticket, csrfToken |-> csrf, at |-> now]

NoSessionMsg == "No valid session. Authentication required."

ClientInit ==
  /\ pc = "start"
  /\ isTTY = FALSE
  /\ hasOnError = FALSE
  /\ wsState = "NONE"
  /\ isConnected = FALSE
  /\ cleanedUp = FALSE
  /\ connectionTimeout = "null"
  /\ timerState = "none"
  /\ stdinHandler = FALSE
  /\ stdinListening = FALSE
  /\ resizeHandler = FALSE
  /\ resizeListening = FALSE
  /\ settleTimer = "none"
  /\ rawMode = FALSE
  /\ termDims = <<80, 24>>
  /\ sent = <<>>
  /\ stdout = <<>>
  /\ stdinLog = <<>>
  /\ nStdin = 0
  /\ nResizes = 0
  /\ nMsgs = 0
  /\ effects = NoEffects
  /\ onErrorCalls = <<>>
  /\ promise = Pending
  /\ classLog = <<>>
  /\ ConfigIdle
  /\ PumpIdle
  /\ HelpIdle
  /\ StorageIdle
  /\ NavIdle
  /\ skipTlsVerify \in BOOLEAN
  /\ now = 0
  /\ nTicks = 0
  /\ disk \in DiskStates
  /\ clientUp = FALSE
  /\ sessionTicket = ""
  /\ csrfToken = ""
  /\ inflight = NoInflight
  /\ requests = <<>>
  /\ lastResult = NoResult

\* Time passes.
Tick(d) ==
  /\ nTicks < MaxTicks
  /\ nTicks' = nTicks + 1
  /\ now' = now + d
  /\ UNCHANGED <<skipTlsVerify, disk, clientUp, sessionTicket, csrfToken, inflight,
                 requests, lastResult>>

\* Mutant of loadSessionFromDisk: a loaded session is taken without the
\* validity test.
LoadSessionFromDisk_AnySession ==
  LET session == LoadSession(disk)
  IN  IF session.present
        THEN /\ sessionTicket' = session.ticket
             /\ csrfToken' = session.csrfToken
        ELSE UNCHANGED <<sessionTicket, csrfToken>>

\* loadSessionFromDisk()
LoadSessionFromDisk ==
  LET session == LoadSession(disk)
  IN  IF IsSessionValid(session, now)
        THEN /\ sessionTicket' = session.ticket
             /\ csrfToken' = session.csrfToken
        ELSE UNCHANGED <<sessionTicket, csrfToken>>

\* new ProxmoxClient(config)
Construct ==
  /\ ~clientUp
  /\ clientUp' = TRUE
  /\ LoadSessionFromDisk
  /\ UNCHANGED <<skipTlsVerify, now, nTicks, disk, inflight, requests, lastResult>>

\* hasValidSession() as a function: the value returned and the fields after.
HasValidSessionResult ==
  IF sessionTicket # ""
    THEN [valid |-> TRUE, ticket |-> sessionTicket, csrfToken |-> csrfToken]
  ELSE IF IsSessionValid(LoadSession(disk), now)
    THEN [valid |-> TRUE, ticket |-> LoadSession(disk).ticket,
          csrfToken |-> LoadSession(disk).csrfToken]
  ELSE [valid |-> FALSE, ticket |-> sessionTicket, csrfToken |-> csrfToken]

\* hasValidSession()
HasValidSession ==
  /\ clientUp
  /\ LET r == HasValidSessionResult
     IN  /\ sessionTicket' = r.ticket
         /\ csrfToken' = r.csrfToken
         /\ lastResult' = Result("hasValidSession", IF r.valid THEN "true" ELSE "false",
                                 "", 0, "", "", "")
  /\ UNCHANGED <<skipTlsVerify, now, nTicks, disk, clientUp, inflight, requests>>

\* getSessionTicket()
GetSessionTicket ==
  /\ clientUp
  /\ LET r == HasValidSessionResult
     IN  /\ sessionTicket' = r.ticket
         /\ csrfToken' = r.csrfToken
         /\ lastResult' =
              IF r.valid
                THEN Result("getSessionTicket", "ok", "", 0, "", r.ticket, r.csrfToken)
                ELSE Result("getSessionTicket", "error", NoSessionMsg, 0, "", "", "")
  /\ UNCHANGED <<skipTlsVerify, now, nTicks, disk, clientUp, inflight, requests>>

\* authenticateWithPassword(password), up to the await of fetch.
AuthSend ==
  /\ clientUp
  /\ inflight = NoInflight
  /\ Len(requests) < MaxRequests
  /\ requests' = Append(requests,
       HttpRequest("auth", "/access/ticket", FALSE, "", "", FetchTls.rejectUnauthorized))
  /\ inflight' = [op |-> "auth", path |-> "/access/ticket", ticket |-> ""]
  /\ UNCHANGED <<skipTlsVerify, now, nTicks, disk, clientUp, sessionTicket, csrfToken,
                 lastResult>>

\* Mutants of authenticateWithPassword after the fetch: the session is not
\* saved; a failed response clears the in-memory session.
AuthRespond_NoSave(status, data) ==
  /\ inflight.op = "auth"
  /\ inflight' = NoInflight
  /\ IF ~ResponseOk(status)
       THEN /\ lastResult' =
                 IF status = 401
                   THEN Result("authenticate", "error", "Invalid username or password",
                               status, "", "", "")
                   ELSE Result("authenticate", "error", "Authentication failed: ",
                               status, ErrorBody, "", "")
            /\ UNCHANGED <<sessionTicket, csrfToken, disk>>
       ELSE /\ sessionTicket' = data.ticket
            /\ csrfToken' = data.CSRFPreventionToken
            /\ UNCHANGED disk
            /\ lastResult' = Result("authenticate", "ok", "", status, "",
                                    data.ticket, data.CSRFPreventionToken)
  /\ UNCHANGED <<skipTlsVerify, now, nTicks, clientUp, requests>>

AuthRespond_ClearsOnFailure(status, data) ==
  /\ inflight.op = "auth"
  /\ inflight' = NoInflight
  /\ IF ~ResponseOk(status)
       THEN /\ lastResult' =
                 IF status = 401
                   THEN Result("authenticate", "error", "Invalid username or password",
                               status, "", "", "")
                   ELSE Result("authenticate", "error", "Authentication failed: ",
                               status, ErrorBody, "", "")
            /\ sessionTicket' = ""
            /\ csrfToken' = ""
            /\ UNCHANGED disk
       ELSE /\ sessionTicket' = data.ticket
            /\ csrfToken' = data.CSRFPreventionToken
            /\ disk' = SaveSession([ticket |-> data.ticket,
                                    csrfToken |-> data.CSRFPreventionToken,
                                    username |-> Username, timestamp |-> now])
            /\ lastResult' = Result("authenticate", "ok", "", status, "",
                                    data.ticket, data.CSRFPreventionToken)
  /\ UNCHANGED <<skipTlsVerify, now, nTicks, clientUp, requests>>

\* authenticateWithPassword(password), from the response on.
AuthRespond(status, data) ==
  /\ inflight.op = "auth"
  /\ inflight' = NoInflight
  /\ IF ~ResponseOk(status)
       THEN /\ lastResult' =
                 IF status = 401
                   THEN Result("authenticate", "error", "Invalid username or password",
                               status, "", "", "")
                   ELSE Result("authenticate", "error", "Authentication failed: ",
                               status, ErrorBody, "", "")
            /\ UNCHANGED <<sessionTicket, csrfToken, disk>>
       ELSE /\ sessionTicket' = data.ticket
            /\ csrfToken' = data.CSRFPreventionToken
            /\ disk' = SaveSession([ticket |-> data.ticket,
                                    csrfToken |-> data.CSRFPreventionToken,
                                    username |-> Username, timestamp |-> now])
            /\ lastResult' = Result("authenticate", "ok", "", status, "",
                                    data.ticket, data.CSRFPreventionToken)
  /\ UNCHANGED <<skipTlsVerify, now, nTicks, clientUp, requests>>

\* `/nodes/${node}/lxc/${vmid}/termproxy` and its qemu twin
TermProxyPath(kind) == IF kind = "lxc" THEN "/nodes/N/lxc/ID/termproxy"
                                       ELSE "/nodes/N/qemu/ID/termproxy"

\* Mutant of the console-ticket call: it goes through request(), with the
\* API-token header.
TermProxySend_ViaRequest(kind) ==
  /\ clientUp
  /\ inflight = NoInflight
  /\ Len(requests) < MaxRequests
  /\ LET r == HasValidSessionResult
     IN  /\ sessionTicket' = r.ticket
         /\ csrfToken' = r.csrfToken
         /\ IF ~r.valid
              THEN /\ lastResult' = Result("termproxy", "error", NoSessionMsg, 0, "", "", "")
                   /\ UNCHANGED <<inflight, requests>>
              ELSE /\ requests' = Append(requests,
                        HttpRequest("termproxy", TermProxyPath(kind), TRUE, "", "",
                                    FetchTls.rejectUnauthorized))
                   /\ inflight' = [op |-> "termproxy", path |-> TermProxyPath(kind),
                                   ticket |-> r.ticket]
                   /\ UNCHANGED lastResult
  /\ UNCHANGED <<skipTlsVerify, now, nTicks, disk, clientUp>>

\* createContainerTermProxy / createVMTermProxy: getSessionTicket(), then
\* requestWithSession up to the await of fetch.
TermProxySend(kind) ==
  /\ clientUp
  /\ inflight = NoInflight
  /\ Len(requests) < MaxRequests
  /\ LET r == HasValidSessionResult
     IN  /\ sessionTicket' = r.ticket
         /\ csrfToken' = r.csrfToken
         /\ IF ~r.valid
              THEN /\ lastResult' = Result("termproxy", "error", NoSessionMsg, 0, "", "", "")
                   /\ UNCHANGED <<inflight, requests>>
              ELSE /\ requests' = Append(requests,
                        HttpRequest("termproxy", TermProxyPath(kind), FALSE, r.ticket,
                                    r.csrfToken, FetchTls.rejectUnauthorized))
                   /\ inflight' = [op |-> "termproxy", path |-> TermProxyPath(kind),
                                   ticket |-> r.ticket]
                   /\ UNCHANGED lastResult
  /\ UNCHANGED <<skipTlsVerify, now, nTicks, disk, clientUp>>

\* requestWithSession from the response on.
TermProxyRespond(status) ==
  /\ inflight.op = "termproxy"
  /\ inflight' = NoInflight
  /\ lastResult' =
       IF ~ResponseOk(status)
         THEN Result("termproxy", "error", "Proxmox API error: ", status, ErrorBody, "", "")
         ELSE Result("termproxy", "ok", "", status, "", inflight.ticket, "")
  /\ UNCHANGED <<skipTlsVerify, now, nTicks, disk, clientUp, sessionTicket, csrfToken,
                 requests>>

\* request(method, path) up to the await of fetch, called directly or by
\* testConnection (GET /version).
RequestSend(caller) ==
  /\ clientUp
  /\ inflight = NoInflight
  /\ Len(requests) < MaxRequests
  /\ requests' = Append(requests,
       HttpRequest("request", "/version", TRUE, "", "", FetchTls.rejectUnauthorized))
  /\ inflight' = [op |-> caller, path |-> "/version", ticket |-> ""]
  /\ UNCHANGED <<skipTlsVerify, now, nTicks, disk, clientUp, sessionTicket, csrfToken,
                 lastResult>>

\* Mutant of request(): no case for 501, which falls to the generic error.
RequestOutcome_No501Case(status) ==
  IF status = NetworkFailure
    THEN Result("request", "error", "fetch failed", status, "", "", "")
  ELSE IF ResponseOk(status)
    THEN Result("request", "ok", "", status, "", "", "")
  ELSE IF status = 401
    THEN Result("request", "error", "Authentication failed (401). Check your API token",
                status, "", "", "")
  ELSE Result("request", "error", "Proxmox API error: ", status, ErrorBody, "", "")

\* request(method, path) from the response on: what it returns or throws
\* (a rejected fetch is thrown on as it is).
RequestOutcome(status) ==
  IF status = NetworkFailure
    THEN Result("request", "error", "fetch failed", status, "", "", "")
  ELSE IF ResponseOk(status)
    THEN Result("request", "ok", "", status, "", "", "")
  ELSE IF status = 401
    THEN Result("request", "error", "Authentication failed (401). Check your API token",
                status, "", "", "")
  ELSE IF status = 501
    THEN Result("request", "error", "Operation not supported (501)", status, "", "", "")
  ELSE Result("request", "error", "Proxmox API error: ", status, ErrorBody, "", "")

\* The response (or the rejection of fetch) arrives: request() returns or
\* throws, and testConnection turns that into true or false.
RequestRespond(status) ==
  /\ inflight.op \in RequestCallers
  /\ inflight' = NoInflight
  /\ lastResult' =
       IF inflight.op = "testConnection"
         THEN Result("testConnection",
                     IF RequestOutcome(status).outcome = "ok" THEN "true" ELSE "false",
                     "", status, "", "", "")
         ELSE RequestOutcome(status)
  /\ UNCHANGED <<skipTlsVerify, now, nTicks, disk, clientUp, sessionTicket, csrfToken,
                 requests>>

\* connectTerminal's new WebSocket(wsUrl, ["binary"], wsOptions), as seen
\* from the client: the connection and the verification it is made with.
ConsoleConnect(cookie) ==
  /\ clientUp
  /\ Len(requests) < MaxRequests
  /\ requests' = Append(requests,
       HttpRequest("websocket", "/vncwebsocket", FALSE, cookie, "",
                   WsOptions.rejectUnauthorized))
  /\ UNCHANGED <<skipTlsVerify, now, nTicks, disk, clientUp, sessionTicket, csrfToken,
                 inflight, lastResult>>

BridgeIdle ==
  UNCHANGED <<bridgeVars, classLog, configVars, pumpVars, helpVars, storageVars, navVars>>

ClientNext ==
  \/ (\E d \in Delays : Tick(d)) /\ BridgeIdle
  \/ Construct /\ BridgeIdle
  \/ HasValidSession /\ BridgeIdle
  \/ GetSessionTicket /\ BridgeIdle
  \/ AuthSend /\ BridgeIdle
  \/ (\E status \in AuthStatuses, data \in AuthResponses : AuthRespond(status, data))
       /\ BridgeIdle
  \/ (\E kind \in TermProxyKinds : TermProxySend(kind)) /\ BridgeIdle
  \/ (\E status \in TermProxyStatuses : TermProxyRespond(status)) /\ BridgeIdle
  \/ (\E caller \in RequestCallers : RequestSend(caller)) /\ BridgeIdle
  \/ (\E status \in RequestStatuses : RequestRespond(status)) /\ BridgeIdle
  \/ (\E cookie \in {"", sessionTicket} : ConsoleConnect(cookie)) /\ BridgeIdle

ClientSpec == ClientInit /\ [][ClientNext]_vars

\* --------------------------------------------------------------- classifier
\* The classification of the "error" handler run on its own, on one error
\* text after another.
ClassifyInit ==
  /\ Init
  /\ ~isTTY
  /\ ~hasOnError

Classify(message) ==
  /\ Len(classLog) < MaxClassify
  /\ classLog' = Append(classLog, [text |-> message, result |-> ClassifyError(message)])
  /\ UNCHANGED <<bridgeVars, clientVars, configVars, pumpVars, helpVars, storageVars,
                 navVars>>

ClassifyNext == \E message \in ClassifyTexts : Classify(message)

ClassifySpec == ClassifyInit /\ [][ClassifyNext]_vars

\* ------------------------------------------------------------------ config
\* saveConfig and its helpers. A mode is the number of its nine permission
\* bits.
Mode0700 == 7 * 64
Mode0600 == 6 * 64
Mode0755 == 7 * 64 + 5 * 8 + 5
Mode0777 == 7 * 64 + 7 * 8 + 7
Mode0644 == 6 * 64 + 4 * 8 + 4
Mode0666 == 6 * 64 + 6 * 8 + 6
Umask022 == 2 * 8 + 2
Umask077 == 7 * 8 + 7

DirModes == {Mode0700, Mode0755, Mode0777}
FileModes == {Mode0600, Mode0644, Mode0666}
Umasks == {0, Umask022, Umask077}
Platforms == {"linux", "win32"}
\* JSON.stringify(config, null, 2) of the configurations saved
ConfigTexts == {"config A", "config B"}

ModeBits(m) == {i \in 0..8 : (m \div (2 ^ i)) % 2 = 1}

RECURSIVE ModeOf(_)
ModeOf(bits) ==
  IF bits = {} THEN 0
  ELSE LET i == CHOOSE b \in bits : TRUE
       IN  2 ^ i + ModeOf(bits \ {i})

\* The mode a path is created with: mode & ~umask.
CreatedMode(mode, umask) == ModeOf(ModeBits(mode) \ ModeBits(umask))

\* ensureSecureDir(dirPath): the directory afterwards. On win32 the ACL is
\* set instead and the mode is left as it is.
EnsureSecureDir(dir, platform, umask) ==
  LET made == IF ~dir.exists
                THEN [exists |-> TRUE, mode |-> CreatedMode(Mode0700, umask), content |-> ""]
                ELSE dir
  IN  IF platform = "win32" THEN made ELSE [made EXCEPT !.mode = Mode0700]

\* Mutant of writeSecureFile: no chmodSync after the write.
WriteSecureFile_NoChmod(file, content, platform, umask) ==
  IF file.exists
    THEN [file EXCEPT !.content = content]
    ELSE [exists |-> TRUE, mode |-> CreatedMode(Mode0600, umask), content |-> content]

\* writeSecureFile(filePath, content): the file afterwards. writeFileSync's
\* mode applies only when it creates the file.
WriteSecureFile(file, content, platform, umask) ==
  LET written ==
        IF file.exists
          THEN [file EXCEPT !.content = content]
          ELSE [exists |-> TRUE, mode |-> CreatedMode(Mode0600, umask), content |-> content]
  IN  IF platform = "win32" THEN written ELSE [written EXCEPT !.mode = Mode0600]

exceptConfig ==
  << bridgeVars, clientVars, classLog, pumpVars, helpVars, storageVars, navVars >>

\* The bridge not started, as the other components see it.
BridgeUnstarted ==
  /\ pc = "start"
  /\ isTTY = FALSE
  /\ hasOnError = FALSE
  /\ wsState = "NONE"
  /\ isConnected = FALSE
  /\ cleanedUp = FALSE
  /\ connectionTimeout = "null"
  /\ timerState = "none"
  /\ stdinHandler = FALSE
  /\ stdinListening = FALSE
  /\ resizeHandler = FALSE
  /\ resizeListening = FALSE
  /\ settleTimer = "none"
  /\ rawMode = FALSE
  /\ termDims = <<80, 24>>
  /\ sent = <<>>
  /\ stdout = <<>>
  /\ stdinLog = <<>>
  /\ nStdin = 0
  /\ nResizes = 0
  /\ nMsgs = 0
  /\ effects = NoEffects
  /\ onErrorCalls = <<>>
  /\ promise = Pending

\* Before the first save the directory and the file may be missing, or be
\* there with any of the modes, tight or loose.
ConfigInit ==
  /\ BridgeUnstarted
  /\ ClientIdle
  /\ ClassifyIdle
  /\ PumpIdle
  /\ HelpIdle
  /\ StorageIdle
  /\ NavIdle
  /\ cfgPlatform \in Platforms
  /\ cfgUmask \in Umasks
  /\ cfgDir \in {NoEntry} \cup {[exists |-> TRUE, mode |-> m, content |-> ""] : m \in DirModes}
  /\ cfgFile \in {NoEntry} \cup
       {[exists |-> TRUE, mode |-> m, content |-> "config A"] : m \in FileModes}
  /\ cfgFile.exists => cfgDir.exists
  /\ nSaves = 0
  /\ nChmods = 0

\* saveConfig(config)
SaveConfig(content) ==
  /\ nSaves < MaxSaves
  /\ nSaves' = nSaves + 1
  /\ cfgDir' = EnsureSecureDir(cfgDir, cfgPlatform, cfgUmask)
  /\ cfgFile' = WriteSecureFile(cfgFile, content, cfgPlatform, cfgUmask)
  /\ UNCHANGED <<cfgPlatform, cfgUmask, nChmods>>
  /\ UNCHANGED exceptConfig

\* Somebody else loosens the directory's or the file's permissions.
LoosenDir(mode) ==
  /\ nChmods < MaxChmods
  /\ cfgDir.exists
  /\ mode # Mode0700
  /\ nChmods' = nChmods + 1
  /\ cfgDir' = [cfgDir EXCEPT !.mode = mode]
  /\ UNCHANGED <<cfgPlatform, cfgUmask, cfgFile, nSaves>>
  /\ UNCHANGED exceptConfig

LoosenFile(mode) ==
  /\ nChmods < MaxChmods
  /\ cfgFile.exists
  /\ mode # Mode0600
  /\ nChmods' = nChmods + 1
  /\ cfgFile' = [cfgFile EXCEPT !.mode = mode]
  /\ UNCHANGED <<cfgPlatform, cfgUmask, cfgDir, nSaves>>
  /\ UNCHANGED exceptConfig

ConfigNext ==
  \/ \E content \in ConfigTexts : SaveConfig(content)
  \/ \E mode \in DirModes : LoosenDir(mode)
  \/ \E mode \in FileModes : LoosenFile(mode)

ConfigSpec == ConfigInit /\ [][ConfigNext]_vars

\* ------------------------------------------------------------ inbound pump
\* The "message" handler of an open console on its own. A message is a
\* Buffer, or a string that ws decoded from the frame's (valid) UTF-8
\* payload.
PumpMessages ==
  {[isBuffer |-> TRUE, payload |-> <<27, 91, 72>>],
   [isBuffer |-> TRUE, payload |-> <<255, 0>>],
   [isBuffer |-> FALSE, payload |-> <<104, 105>>],
   [isBuffer |-> FALSE, payload |-> <<195, 169>>],
   [isBuffer |-> FALSE, payload |-> <<240, 159, 152, 128>>]}

exceptPump ==
  << clientVars, classLog, configVars, helpVars, storageVars, navVars >>

\* The bridge right after "open" (not a TTY, no onError given).
PumpInit ==
  /\ pc = "running"
  /\ isTTY = FALSE
  /\ hasOnError = FALSE
  /\ wsState = "OPEN"
  /\ isConnected = TRUE
  /\ cleanedUp = FALSE
  /\ connectionTimeout = "null"
  /\ timerState = "cleared"
  /\ stdinHandler = TRUE
  /\ stdinListening = TRUE
  /\ resizeHandler = TRUE
  /\ resizeListening = TRUE
  /\ settleTimer = "pending"
  /\ rawMode = FALSE
  /\ termDims = <<80, 24>>
  /\ sent = <<AuthFrame>>
  /\ stdout = <<Ctl("CLEAR_SCREEN"), Ctl("SET_TITLE")>>
  /\ stdinLog = <<>>
  /\ nStdin = 0
  /\ nResizes = 0
  /\ nMsgs = 0
  /\ effects = NoEffects
  /\ onErrorCalls = <<>>
  /\ promise = Pending
  /\ ClientIdle
  /\ ClassifyIdle
  /\ ConfigIdle
  /\ HelpIdle
  /\ StorageIdle
  /\ NavIdle
  /\ received = <<>>

\* Mutant of the "message" handler: data.toString() is written for a Buffer
\* too.
OnMessage_BufferToString(msg) ==
  /\ wsState \in {"OPEN", "CLOSING"}
  /\ Len(received) < MaxInbound
  /\ received' = Append(received, msg)
  /\ stdout' = Append(stdout, Out(Utf8Encode(Utf8Decode(msg.payload))))
  /\ UNCHANGED <<pc, isTTY, hasOnError, wsState, isConnected, cleanedUp, connectionTimeout,
                 timerState, stdinHandler, stdinListening, resizeHandler, resizeListening,
                 settleTimer, rawMode, termDims, sent, stdinLog, nStdin, nResizes, nMsgs,
                 effects, onErrorCalls, promise>>
  /\ UNCHANGED exceptPump

\* ws.on("message"): a Buffer is written as it is, anything else as
\* data.toString(), which process.stdout.write encodes as UTF-8.
OnMessage(msg) ==
  /\ wsState \in {"OPEN", "CLOSING"}
  /\ Len(received) < MaxInbound
  /\ received' = Append(received, msg)
  /\ stdout' = Append(stdout,
       Out(IF msg.isBuffer THEN msg.payload ELSE Utf8Encode(Utf8Decode(msg.payload))))
  /\ UNCHANGED <<pc, isTTY, hasOnError, wsState, isConnected, cleanedUp, connectionTimeout,
                 timerState, stdinHandler, stdinListening, resizeHandler, resizeListening,
                 settleTimer, rawMode, termDims, sent, stdinLog, nStdin, nResizes, nMsgs,
                 effects, onErrorCalls, promise>>
  /\ UNCHANGED exceptPump

PumpNext == \E msg \in PumpMessages : OnMessage(msg)

PumpSpec == PumpInit /\ [][PumpNext]_vars

\* --------------------------------------------------------------- App keys
\* The App component: its useInput handler, the two effects that register the
\* help and the error modal with the ModalProvider, and what its children
\* and contexts change.
Views == <<"dashboard", "vms", "containers", "storage">>
AppKeys == {"?", "escape", "1", "3", "q"}

\* parseInt(input); 0 stands for NaN
ParseInt(input) == IF input = "1" THEN 1 ELSE IF input = "3" THEN 3 ELSE 0

\* isModalOpen: openModals.size > 0
IsModalOpen == openModals # {}

exceptHelp ==
  << bridgeVars, clientVars, classLog, configVars, pumpVars, storageVars, navVars >>

HelpInit ==
  /\ BridgeUnstarted
  /\ ClientIdle
  /\ ClassifyIdle
  /\ ConfigIdle
  /\ PumpIdle
  /\ StorageIdle
  /\ NavIdle
  /\ HelpIdle

\* The useInput handler of App, for one key.
AppKey(input) ==
  /\ ~exited
  /\ nKeys < MaxKeys
  /\ nKeys' = nKeys + 1
  /\ IF appError
       THEN /\ appError' = FALSE
            /\ UNCHANGED <<showHelp, currentView, exited>>
     ELSE IF isEditing \/ consoleActive \/ IsModalOpen
       THEN UNCHANGED <<appError, showHelp, currentView, exited>>
     ELSE IF input = "?"
       THEN /\ showHelp' = ~showHelp
            /\ UNCHANGED <<appError, currentView, exited>>
     ELSE IF showHelp /\ input = "escape"
       THEN /\ showHelp' = FALSE
            /\ UNCHANGED <<appError, currentView, exited>>
     ELSE IF showHelp
       THEN UNCHANGED <<appError, showHelp, currentView, exited>>
     ELSE /\ currentView' = IF ParseInt(input) >= 1 /\ ParseInt(input) <= Len(Views)
                              THEN Views[ParseInt(input)] ELSE currentView
          /\ exited' = (input = "q")
          /\ UNCHANGED <<appError, showHelp>>
  /\ UNCHANGED <<openModals, isEditing, consoleActive>>
  /\ UNCHANGED exceptHelp

\* The effects on [showHelp] and [appError], run after the render that
\* changed them: openModal / closeModal of "help" and "error".
RunEffects ==
  /\ ~exited
  /\ openModals # (IF showHelp THEN {"help"} ELSE {}) \cup (IF appError THEN {"error"} ELSE {})
  /\ openModals' = (IF showHelp THEN {"help"} ELSE {}) \cup (IF appError THEN {"error"} ELSE {})
  /\ UNCHANGED <<showHelp, appError, currentView, isEditing, consoleActive, exited, nKeys>>
  /\ UNCHANGED exceptHelp

\* Containers reports a console failure: onError -> setAppError.
RaiseError ==
  /\ ~exited
  /\ ~appError
  /\ appError' = TRUE
  /\ UNCHANGED <<showHelp, openModals, currentView, isEditing, consoleActive, exited, nKeys>>
  /\ UNCHANGED exceptHelp

\* A form enters or leaves edit mode.
SetEditing(b) ==
  /\ ~exited
  /\ isEditing # b
  /\ isEditing' = b
  /\ UNCHANGED <<showHelp, appError, openModals, currentView, consoleActive, exited, nKeys>>
  /\ UNCHANGED exceptHelp

\* Containers opens or leaves a console: onConsoleActiveChange.
SetConsoleActive(b) ==
  /\ ~exited
  /\ consoleActive # b
  /\ consoleActive' = b
  /\ UNCHANGED <<showHelp, appError, openModals, currentView, isEditing, exited, nKeys>>
  /\ UNCHANGED exceptHelp

HelpNext ==
  \/ \E input \in AppKeys : AppKey(input)
  \/ RunEffects
  \/ RaiseError
  \/ \E b \in BOOLEAN : SetEditing(b)
  \/ \E b \in BOOLEAN : SetConsoleActive(b)

HelpSpec == HelpInit /\ [][HelpNext]_vars

\* ---------------------------------------------------------------- storage
\* getStorage. A storage entry is its name and the node that reported it.
StorageNames == {"local", "shared", "nfs"}

\* The answers of the nodes' /storage requests, in the order of getNodes():
\* for each node the names it reports, in order.
NodeAnswers == UNION {[1..k -> StorageNames] : k \in 0..MaxPerNode}
ClusterAnswers == UNION {[1..n -> NodeAnswers] : n \in 0..MaxNodes}

\* One node's answer as Storage objects.
StoragesOf(results, n) ==
  [i \in 1..Len(results[n]) |-> [storage |-> results[n][i], node |-> n]]

\* results.flat(): Promise.all keeps the order of the requests.
RECURSIVE Flat(_, _)
Flat(results, n) ==
  IF n > Len(results) THEN <<>> ELSE StoragesOf(results, n) \o Flat(results, n + 1)

\* Mutant of the filter: an entry is kept unless a later one has its name.
RECURSIVE Dedup_KeepsLast(_, _)
Dedup_KeepsLast(list, seen) ==
  IF list = <<>> THEN <<>>
  ELSE IF \E i \in 2..Len(list) : list[i].storage = list[1].storage
    THEN Dedup_KeepsLast(Tail(list), seen)
    ELSE <<list[1]>> \o Dedup_KeepsLast(Tail(list), seen)

\* The filter with the `seen` set: an entry is kept iff its name has not been
\* seen, and is then added to the set.
RECURSIVE Dedup(_, _)
Dedup(list, seen) ==
  IF list = <<>> THEN <<>>
  ELSE IF list[1].storage \in seen
    THEN Dedup(Tail(list), seen)
    ELSE <<list[1]>> \o Dedup(Tail(list), seen \cup {list[1].storage})

exceptStorage ==
  << bridgeVars, clientVars, classLog, configVars, pumpVars, helpVars, navVars >>

StorageInit ==
  /\ BridgeUnstarted
  /\ ClientIdle
  /\ ClassifyIdle
  /\ ConfigIdle
  /\ PumpIdle
  /\ HelpIdle
  /\ NavIdle
  /\ storResults \in ClusterAnswers
  /\ storCall = "none"
  /\ storOut = <<>>

\* getStorage() without a node, all requests answered.
GetStorageAll ==
  /\ storCall = "none"
  /\ storCall' = "all"
  /\ storOut' = Dedup(Flat(storResults, 1), {})
  /\ UNCHANGED storResults
  /\ UNCHANGED exceptStorage

\* getStorage(node): that node's answer as it is.
GetStorageNode(n) ==
  /\ storCall = "none"
  /\ storCall' = "node"
  /\ storOut' = StoragesOf(storResults, n)
  /\ UNCHANGED storResults
  /\ UNCHANGED exceptStorage

StorageNext ==
  \/ GetStorageAll
  \/ \E n \in 1..Len(storResults) : GetStorageNode(n)

StorageSpec == StorageInit /\ [][StorageNext]_vars

\* ------------------------------------------------------------- navigation
\* useKeyboardNavigation (enabled), in a view whose list is refreshed.
NavKeys == {"j", "down", "k", "up", "g", "G"}

exceptNav ==
  << bridgeVars, clientVars, classLog, configVars, pumpVars, helpVars, storageVars >>

\* First render: useState(0), the list as long as it is (empty while it
\* loads).
NavInit ==
  /\ BridgeUnstarted
  /\ ClientIdle
  /\ ClassifyIdle
  /\ ConfigIdle
  /\ PumpIdle
  /\ HelpIdle
  /\ StorageIdle
  /\ navItemCount \in 0..MaxItems
  /\ selectedIndex = 0
  /\ nNavKeys = 0
  /\ nListChanges = 0

\* moveUp / moveDown: the updater given to setSelectedIndex
MoveUp(prev, itemCount) == IF prev > 0 THEN prev - 1 ELSE itemCount - 1
MoveDown(prev, itemCount) == IF prev < itemCount - 1 THEN prev + 1 ELSE 0

\* The hook's useInput handler, for one navigation key.
NavKey(input) ==
  /\ nNavKeys < MaxNavKeys
  /\ nNavKeys' = nNavKeys + 1
  /\ selectedIndex' =
       IF input \in {"j", "down"} THEN MoveDown(selectedIndex, navItemCount)
       ELSE IF input \in {"k", "up"} THEN MoveUp(selectedIndex, navItemCount)
       ELSE IF input = "g" THEN 0
       ELSE IF input = "G" THEN navItemCount - 1
       ELSE selectedIndex
  /\ UNCHANGED <<navItemCount, nListChanges>>
  /\ UNCHANGED exceptNav

\* A refresh renders the view with a list of another length; the hook's
\* state is kept as it is.
ListChange(count) ==
  /\ nListChanges < MaxListChanges
  /\ count # navItemCount
  /\ nListChanges' = nListChanges + 1
  /\ navItemCount' = count
  /\ UNCHANGED <<selectedIndex, nNavKeys>>
  /\ UNCHANGED exceptNav

NavNext ==
  \/ \E input \in NavKeys : NavKey(input)
  \/ \E count \in 0..MaxItems : ListChange(count)

NavSpec == NavInit /\ [][NavNext]_vars

\* ------------------------------------------------------------------ claims

\* C1: the first frame sent on the socket is the authentication handshake; no
\* Data frame and no Resize frame is sent before it.
C1_HandshakeFirst ==
  \A i \in 1..Len(sent) :
    (IsData(sent[i]) \/ IsResize(sent[i])) => (i > 1 /\ sent[1] = AuthFrame)

C1_Witness ==
  /\ Len(sent) >= 3
  /\ sent[1] = AuthFrame
  /\ \E i \in 1..Len(sent) : IsData(sent[i])
  /\ \E i \in 1..Len(sent) : IsResize(sent[i])

\* C2 (as claimed): each cleanup side effect is performed exactly once per
\* session: never twice, and, once the session is over, not zero times (a
\* listener removal is due for a session that registered the listener).
C2_CleanupEffectsExactlyOnce ==
  /\ effects.cooked <= 1 /\ effects.stdinOff <= 1
  /\ effects.resizeOff <= 1 /\ effects.reset <= 1
  /\ SessionOver =>
       /\ effects.reset = 1
       /\ isTTY => effects.cooked = 1
       /\ stdinHandler => effects.stdinOff = 1
       /\ resizeHandler => effects.resizeOff = 1

\* C3: the promise settles exactly once: it is settled at the latest when the
\* socket has closed; a connection attempt always goes on to "open" or to a
\* settled promise; and once settled the outcome never changes.
C3_SettlesExactlyOnce ==
  /\ [](wsState = "CLOSED" => Settled)
  /\ [](wsState = "CONNECTING" => <>(Settled \/ wsState = "OPEN"))
  /\ [][Settled => promise' = promise]_vars

\* An error after "open" rejected the promise, and the close event that
\* followed (whose handler calls resolve) has been handled.
C3_Witness ==
  /\ promise.state = "rejected"
  /\ isConnected
  /\ wsState = "CLOSED"

\* C4 (as claimed): the 10 s timer firing before "open" fails the run with the
\* timeout error, and once the run has failed so the terminal is in cooked mode.
C4_TimeoutFailsCooked ==
  /\ timerState = "fired" => TimedOut
  /\ TimedOut => ~rawMode

\* C5 (as claimed): after a timeout failure the socket has been aborted: it is
\* closing or closed, and no "open" of it can be handled.
C5_TimeoutAbortsSocket ==
  TimedOut => (wsState \in {"CLOSING", "CLOSED"} /\ ~ENABLED WsOpen)

\* C6: a chunk that is exactly the byte 0x1C, read while the socket is OPEN,
\* starts the close of the socket and sends nothing; no Data frame ever
\* carries that chunk.
C6_DetachClosesNotForwarded ==
  /\ [][(nStdin' = nStdin + 1 /\ wsState = "OPEN"
           /\ stdinLog' = Append(stdinLog, <<DetachByte>>))
          => (wsState' = "CLOSING" /\ sent' = sent)]_vars
  /\ [](\A i \in 1..Len(sent) :
          IsData(sent[i]) => Utf8Encode(sent[i].payload) # <<DetachByte>>)

C6_Witness ==
  /\ Len(stdinLog) >= 2
  /\ stdinLog[Len(stdinLog)] = <<DetachByte>>
  /\ wsState = "CLOSING"
  /\ Len(DataFrames) = Len(stdinLog) - 1

\* C7 (as claimed): the length field of every Data frame is the number of
\* UTF-8 bytes of its payload.
C7_LenIsUtf8ByteCount ==
  \A i \in 1..Len(sent) :
    IsData(sent[i]) => sent[i].len = Utf8ByteLength(sent[i].payload)

\* C8: the Data frames sent are, in order, exactly the chunks read while the
\* socket was OPEN other than the single byte 0x1C: one frame per chunk, whose
\* payload goes on the wire as the bytes of the chunk.
C8_ChunksForwardedInOrder ==
  LET chunks == SelectSeq(stdinLog, NotDetach)
  IN  /\ Len(DataFrames) = Len(chunks)
      /\ \A i \in 1..Len(chunks) : Utf8Encode(DataFrames[i].payload) = chunks[i]

C8_Witness ==
  /\ Len(DataFrames) = 2
  /\ Utf8Encode(DataFrames[1].payload) = <<DetachByte, 97>>
  /\ Utf8Encode(DataFrames[2].payload) = <<195, 169>>

\* C9 (as claimed): once "open" has been handled a Resize frame has been sent
\* right after the handshake, and once the settle timer has fired on an OPEN
\* socket a second one has been sent.
C9_ImmediateAndSettleResize ==
  /\ isConnected => (Len(sent) >= 2 /\ IsResize(sent[2]))
  /\ (settleTimer = "fired" /\ wsState = "OPEN") => Len(ResizeFrames) >= 2

\* C9 (amended): the "open" handler sends the handshake and no Resize frame;
\* the bridge's own Resize frame is the one the settle timer sends, so there
\* are never more Resize frames than resize events plus the fired settle
\* timer, and one has been sent once the timer has fired on an OPEN socket.
C9_ResizeOnSettleOnly ==
  /\ Len(ResizeFrames) <= nResizes + (IF settleTimer = "fired" THEN 1 ELSE 0)
  /\ (isConnected /\ settleTimer = "pending" /\ nStdin = 0 /\ nResizes = 0)
       => sent = <<AuthFrame>>
  /\ (settleTimer = "fired" /\ wsState = "OPEN") => Len(ResizeFrames) >= 1

C9_Witness ==
  /\ settleTimer = "fired"
  /\ wsState = "OPEN"
  /\ nResizes = 0
  /\ sent = <<AuthFrame, ResizeFrame(termDims)>>

\* C10: while the socket stays OPEN a Resize frame is eventually sent, with no
\* resize event needed, and a Resize frame carries the dimensions the
\* terminal has at the moment it is sent.
C10_ResizeEventuallyAndCurrent ==
  /\ [](wsState = "OPEN" => <>(HasResize \/ wsState # "OPEN"))
  /\ [][(Len(sent') > Len(sent) /\ IsResize(sent'[Len(sent')]))
          => sent'[Len(sent')].dims = termDims']_vars

\* The listener was registered at 80x24; the terminal was then resized, and
\* both the resize frame and the settle timer's frame carry the new size.
C10_Witness ==
  /\ settleTimer = "fired"
  /\ Len(ResizeFrames) = 2
  /\ \A i \in 1..2 : ResizeFrames[i].dims = <<120, 40>>
  /\ sent[1] = AuthFrame

\* C11: a close that arrives before the socket ever opened ends the run as a
\* failure, and a close that arrives on an OPEN socket (so with no socket
\* error before it, which would have left the socket CLOSING) ends the run
\* as a success.
C11_CloseOutcome ==
  [][/\ (wsState # "CLOSED" /\ wsState' = "CLOSED" /\ ~isConnected)
          => promise'.state = "rejected"
     /\ (wsState = "OPEN" /\ wsState' = "CLOSED")
          => promise'.state = "resolved"]_vars

\* C11, away from the late-open path: as long as the 10 s timer has not
\* fired, the two kinds of close are reported as the claim says.
C11_CloseOutcomeNoTimeout ==
  [][timerState # "fired" =>
       /\ (wsState # "CLOSED" /\ wsState' = "CLOSED" /\ ~isConnected)
            => (promise'.state = "rejected" /\ promise'.error # TimeoutError)
       /\ (wsState = "OPEN" /\ wsState' = "CLOSED")
            => promise'.state = "resolved"]_vars

\* C12: a socket error on an OPEN socket whose run has not ended rejects the
\* promise, and a rejected promise stays rejected with the same error
\* through the close that follows.
C12_ErrorAfterOpenFails ==
  [][/\ (wsState = "OPEN" /\ wsState' = "CLOSING" /\ nStdin' = nStdin
             /\ promise.state = "pending")
          => (promise'.state = "rejected"
                /\ promise'.error \in {ClassifyError(m) : m \in ErrorTexts})
     /\ promise.state = "rejected" => promise' = promise]_vars

\* The socket opened, failed with a certificate error and closed: the run
\* is rejected with the classified error.
C12_Witness ==
  /\ wsState = "CLOSED"
  /\ isConnected
  /\ timerState = "cleared"
  /\ promise = [state |-> "rejected", error |-> TlsError]

\* C13: onError is called at most once, with the error the promise is
\* rejected with, and never in a run that succeeds.
C13_OneErrorReported ==
  /\ Len(onErrorCalls) <= 1
  /\ Len(onErrorCalls) = 1 => promise = [state |-> "rejected", error |-> onErrorCalls[1]]
  /\ promise.state = "resolved" => onErrorCalls = <<>>

\* C13, first half only, away from the timeout: still violated by a
\* handshake error followed by the close of the never-opened socket.
C13_AtMostOnceNoTimeout ==
  timerState # "fired" => Len(onErrorCalls) <= 1

\* C14 as stated: patterns certificate, SSL, TLS, self-signed (with a hyphen
\* or a space), unable to verify for TLSCertificate; refused, unreachable
\* for ConnectionRefused; the original message otherwise.
StatedCertificate == <<"c","e","r","t","i","f","i","c","a","t","e">>
StatedSelfSigned == <<"s","e","l","f","-","s","i","g","n","e","d">>
StatedRefused == <<"r","e","f","u","s","e","d">>

StatedTls(low) ==
  \/ Includes(low, StatedCertificate)
  \/ Includes(low, PatSsl)
  \/ Includes(low, PatTls)
  \/ Includes(low, StatedSelfSigned)
  \/ Includes(low, PatSelfSigned)
  \/ Includes(low, PatUnableToVerify)

StatedConnRefused(low) == Includes(low, StatedRefused) \/ Includes(low, PatUnreachable)

C14_ClassifiedAsStated ==
  \A i \in 1..Len(classLog) :
    LET low == ToLowerCase(classLog[i].text)
    IN  classLog[i].result =
          IF StatedTls(low) THEN TlsError
          ELSE IF StatedConnRefused(low) THEN RefusedError
          ELSE WsOtherError(classLog[i].text)

\* C14, amended: the TLS patterns are "cert", "ssl", "tls", "self signed" and
\* "unable to verify", and win over the refused patterns, which are
\* "econnrefused" and "unreachable"; any other text is passed through; equal
\* texts get equal results. Stated on the texts themselves.
C14_ClassifiedByCodePatterns ==
  /\ \A i \in 1..Len(classLog) :
       LET e == classLog[i]
       IN  /\ e.text \in {MsgSelfSigned, MsgTlsRefused, MsgUnableToVerify, MsgBadCert}
                => e.result = TlsError
           /\ e.text \in {MsgEconnrefused, MsgUnreachable} => e.result = RefusedError
           /\ e.text \in {MsgHangUp, MsgRefused}
                => e.result = [text |-> "WebSocket error: ", msg |-> e.text, code |-> 0]
  /\ \A i, j \in 1..Len(classLog) :
       classLog[i].text = classLog[j].text => classLog[i].result = classLog[j].result

\* A text matching both groups, an upper-case errno name and a refusal
\* without the errno name have been classified.
C14_Witness ==
  /\ Len(classLog) = 3
  /\ classLog[1] = [text |-> MsgTlsRefused, result |-> TlsError]
  /\ classLog[2] = [text |-> MsgEconnrefused, result |-> RefusedError]
  /\ classLog[3].text = MsgRefused
  /\ classLog[3].result.msg = MsgRefused

\* The session file holds a session that is younger than the TTL at time t.
StoredSessionYoung(file, t) == file.kind = "session" /\ t - file.timestampMs < SessionTTL

\* C15: getSessionTicket / hasValidSession hands out a session exactly when
\* a cached session younger than the TTL exists at the moment of the call,
\* and getSessionTicket fails with the authentication-required error
\* otherwise.
C15_SessionOnlyWhileYoung ==
  [][/\ (lastResult' # lastResult /\ lastResult'.op = "getSessionTicket")
          => /\ lastResult'.outcome = "ok" <=> StoredSessionYoung(disk, now)
             /\ lastResult'.outcome = "ok" => lastResult'.ticket = disk.ticket
             /\ lastResult'.outcome # "ok" => lastResult'.error = NoSessionMsg
     /\ (lastResult' # lastResult /\ lastResult'.op = "hasValidSession")
          => (lastResult'.outcome = "true" <=> StoredSessionYoung(disk, now))]_vars

\* C15 for a client that holds no ticket in memory: the store is read and
\* the age test is made at the moment of the call.
C15_FreshLoadRespectsTTL ==
  [][(sessionTicket = "" /\ lastResult' # lastResult
        /\ lastResult'.op = "getSessionTicket")
       => /\ lastResult'.outcome = "ok" <=> StoredSessionYoung(disk, now)
          /\ lastResult'.outcome # "ok" => lastResult'.error = NoSessionMsg]_vars

C17_AuthPersistsSession ==
  [][/\ (inflight.op = "auth" /\ inflight'.op = "none" /\ lastResult'.outcome = "ok")
          => /\ LoadSession(disk') =
                  [present |-> TRUE, ticket |-> lastResult'.ticket,
                   csrfToken |-> lastResult'.csrfToken, username |-> Username,
                   timestamp |-> now]
             /\ lastResult'.ticket \in {"T1", "T2"}
             /\ sessionTicket' = lastResult'.ticket
             /\ HasValidSessionResult'.valid
     /\ (Len(requests') > Len(requests) /\ requests'[Len(requests')].op = "termproxy")
          => /\ disk.kind = "session"
             /\ requests'[Len(requests')].cookie = disk.ticket
             /\ requests'[Len(requests')].csrf = disk.csrfToken]_vars

\* An expired session T0 was on disk; the password exchange at minute 100
\* stored T1 and the console-ticket request after it carried T1.
C17_Witness ==
  /\ disk = [kind |-> "session", ticket |-> "T1", csrfToken |-> "C1",
             username |-> Username, timestampMs |-> 100]
  /\ Len(requests) = 2
  /\ requests[1].op = "auth"
  /\ requests[2].op = "termproxy"
  /\ requests[2].cookie = "T1"
  /\ requests[2].csrf = "C1"

\* C18: a 401 from the ticket endpoint fails with the invalid-credentials
\* error, any other non-2xx with the authentication-failed error carrying
\* status and body; the store and the in-memory ticket and CSRF token are
\* as before.
C18_AuthFailureLeavesSession ==
  [][(inflight.op = "auth" /\ inflight'.op = "none")
       => /\ lastResult'.op = "authenticate"
          /\ lastResult'.outcome = "error" <=> ~(lastResult'.status \in 200..299)
          /\ lastResult'.status = 401
               => lastResult'.error = "Invalid username or password"
          /\ lastResult'.status \notin (200..299) \cup {401}
               => /\ lastResult'.error = "Authentication failed: "
                  /\ lastResult'.body = ErrorBody
          /\ lastResult'.outcome = "error"
               => /\ disk' = disk
                  /\ sessionTicket' = sessionTicket
                  /\ csrfToken' = csrfToken]_vars

\* A client holding the stored session T0 got a 500 from the ticket
\* endpoint and still holds T0.
C18_Witness ==
  /\ lastResult.op = "authenticate"
  /\ lastResult.status = 500
  /\ lastResult.error = "Authentication failed: "
  /\ sessionTicket = "T0"
  /\ csrfToken = "C0"
  /\ disk = OldSession

\* C19: a console-ticket request carries the session cookie and the CSRF
\* header and no Authorization header; a management request made through
\* request() carries the Authorization header and no cookie.
C19_CredentialPathsApart ==
  \A i \in 1..Len(requests) :
    /\ requests[i].op = "termproxy"
         => /\ requests[i].cookie # ""
            /\ requests[i].csrf # ""
            /\ ~requests[i].authorization
    /\ requests[i].op = "request"
         => /\ requests[i].authorization
            /\ requests[i].cookie = ""
            /\ requests[i].csrf = ""

\* Both kinds of request have been sent.
C19_Witness ==
  /\ Len(requests) = 2
  /\ requests[1].op = "request"
  /\ requests[2].op = "termproxy"
  /\ requests[2].path = "/nodes/N/qemu/ID/termproxy"

\* C20: unless skipTlsVerify is set, the authentication request, the
\* console-ticket request and the console WebSocket are made with
\* certificate verification on.
C20_VerifiesUnlessSkipped ==
  ~skipTlsVerify =>
    \A i \in 1..Len(requests) :
      requests[i].op \in {"auth", "termproxy", "websocket"}
        => requests[i].rejectUnauthorized

\* C21: a socket that closed after "open" without any inbound message has
\* ended the run as a failure.
C21_SilentCloseIsFailure ==
  (wsState = "CLOSED" /\ isConnected /\ nMsgs = 0) => promise.state = "rejected"

\* C27: once cleanup has run, no later step enables raw mode, attaches a
\* stdin or resize listener, or sends a frame.
C27_NothingAfterCleanup ==
  [][cleanedUp =>
       /\ rawMode' => rawMode
       /\ stdinListening' => stdinListening
       /\ resizeListening' => resizeListening
       /\ sent' = sent]_vars

\* C27, away from the late-open path: with the 10 s timer not fired, nothing
\* follows cleanup.
C27_NothingAfterCleanupNoTimeout ==
  [][(cleanedUp /\ timerState # "fired") =>
       /\ rawMode' => rawMode
       /\ stdinListening' => stdinListening
       /\ resizeListening' => resizeListening
       /\ sent' = sent]_vars

\* C28: a frame is sent only on a socket that is OPEN (the handshake in the
\* step that opens it); while the socket is CLOSING or CLOSED a stdin chunk,
\* a resize or the settle timer leaves the sent frames as they are, and the
\* Data and Resize frames ever sent are those of the chunks read and the
\* resizes and timer handled while it was OPEN.
C28_SendsOnlyWhileOpen ==
  /\ [][sent' # sent =>
          \/ wsState = "OPEN"
          \/ wsState = "CONNECTING" /\ wsState' = "OPEN" /\ sent' = Append(sent, AuthFrame)]_vars
  /\ [](Len(DataFrames) = Len(SelectSeq(stdinLog, NotDetach)))

\* The user detached, then typed again while the socket was CLOSING: only
\* the handshake has ever been sent.
C28_Witness ==
  /\ wsState \in {"CLOSING", "CLOSED"}
  /\ stdinLog = << <<DetachByte>> >>
  /\ nStdin = 2
  /\ sent = <<AuthFrame>>

\* C26: request() turns a non-2xx response into an error and never into
\* data: 401 into "Authentication failed ...", 501 into "Operation not
\* supported (501)", any other into "Proxmox API error: {status}";
\* testConnection answers false for any such failure and for a network
\* failure, true for a 2xx response, and lets no error out.
C26_RequestErrorsMapped ==
  [][(inflight.op \in {"request", "testConnection"} /\ inflight'.op = "none")
       => LET r == lastResult'
          IN  /\ r.op = inflight.op
              /\ inflight.op = "request"
                   => /\ r.outcome = "ok" <=> r.status \in 200..299
                      /\ r.outcome \in {"ok", "error"}
                      /\ r.status = 401
                           => r.error = "Authentication failed (401). Check your API token"
                      /\ r.status = 501 => r.error = "Operation not supported (501)"
                      /\ r.status \in {500}
                           => (r.error = "Proxmox API error: " /\ r.body = "denied")
              /\ inflight.op = "testConnection"
                   => /\ r.outcome = "true" <=> r.status \in 200..299
                      /\ r.outcome \in {"true", "false"}
                      /\ r.error = ""]_vars

\* testConnection met a network failure and answered false.
C26_Witness ==
  /\ lastResult.op = "testConnection"
  /\ lastResult.outcome = "false"
  /\ lastResult.status = 0
  /\ Len(requests) >= 1
  /\ requests[Len(requests)].op = "request"

\* C29: createVMTermProxy / createContainerTermProxy called without a
\* session younger than the TTL fails with the authentication-required
\* error and sends nothing; with one, it posts to the qemu path for a VM and
\* to the lxc path for a container.
C29_TermProxyNeedsSession ==
  [][\A kind \in TermProxyKinds :
       TermProxySend(kind) =>
         IF StoredSessionYoung(disk, now)
           THEN /\ Len(requests') = Len(requests) + 1
                /\ requests'[Len(requests')].op = "termproxy"
                /\ requests'[Len(requests')].path =
                     (IF kind = "qemu" THEN "/nodes/N/qemu/ID/termproxy"
                                       ELSE "/nodes/N/lxc/ID/termproxy")
           ELSE /\ requests' = requests
                /\ lastResult'.op = "termproxy"
                /\ lastResult'.error = NoSessionMsg]_vars

\* C29 for a client with no ticket in memory.
C29_FreshClientNeedsSession ==
  [][\A kind \in TermProxyKinds :
       (sessionTicket = "" /\ TermProxySend(kind)) =>
         IF StoredSessionYoung(disk, now)
           THEN /\ Len(requests') = Len(requests) + 1
                /\ requests'[Len(requests')].op = "termproxy"
                /\ requests'[Len(requests')].path =
                     (IF kind = "qemu" THEN "/nodes/N/qemu/ID/termproxy"
                                       ELSE "/nodes/N/lxc/ID/termproxy")
           ELSE /\ requests' = requests
                /\ lastResult'.op = "termproxy"
                /\ lastResult'.error = NoSessionMsg]_vars

\* C23: on a Unix platform, when saveConfig returns the directory exists
\* with mode 0700 and the file exists with mode 0600 and the content just
\* saved, whatever was there before.
C23_SaveLeavesOwnerOnly ==
  [][(nSaves' = nSaves + 1 /\ cfgPlatform # "win32")
       => /\ cfgDir'.exists
          /\ cfgDir'.mode = 448
          /\ cfgFile'.exists
          /\ cfgFile'.mode = 384
          /\ cfgFile'.content \in ConfigTexts]_vars

\* Directory or file were loosened from outside after they existed, and the
\* save after that left 0700 and 0600 (a loosening after the save would
\* show in the modes).
C23_Witness ==
  /\ cfgPlatform = "linux"
  /\ nChmods = 1
  /\ nSaves = 1
  /\ cfgDir.mode = 448
  /\ cfgFile.mode = 384
  /\ cfgFile.content = "config B"

RECURSIVE ConcatBytes(_)
ConcatBytes(seqs) ==
  IF seqs = <<>> THEN <<>> ELSE Head(seqs) \o ConcatBytes(Tail(seqs))

IsMsgWrite(w) == w.kind = "msg"

C24_HelpCloses ==
  [][\A input \in {"?", "escape"} :
       (showHelp /\ ~appError /\ ~isEditing /\ ~consoleActive /\ AppKey(input))
         => ~showHelp']_vars

\* C24, what happens instead: once the help modal is registered with the
\* ModalProvider, no step hides it again.
C24_HelpStaysOnceRegistered ==
  [][(showHelp /\ "help" \in openModals) => showHelp']_vars

\* Where a name first occurs in a list of storages.
FirstAt(list, name) ==
  CHOOSE i \in 1..Len(list) :
    /\ list[i].storage = name
    /\ \A j \in 1..(i - 1) : list[j].storage # name

\* C25: getStorage without a node returns every reported name exactly once,
\* each as its first occurrence in node order then per-node order, and in
\* the order of those first occurrences.
C25_StorageDeduplicated ==
  storCall = "all" =>
    LET all == Flat(storResults, 1)
    IN  /\ \A i, j \in 1..Len(storOut) :
             storOut[i].storage = storOut[j].storage => i = j
        /\ {storOut[i].storage : i \in 1..Len(storOut)}
             = {all[i].storage : i \in 1..Len(all)}
        /\ \A i \in 1..Len(storOut) : storOut[i] = all[FirstAt(all, storOut[i].storage)]
        /\ \A i, j \in 1..Len(storOut) :
             i < j => FirstAt(all, storOut[i].storage) < FirstAt(all, storOut[j].storage)

\* Two nodes report "shared", the second also "local" before it: the result
\* is shared (of node 1), then local (of node 2).
C25_Witness ==
  /\ storCall = "all"
  /\ storResults = << <<"shared">>, <<"local", "shared">> >>
  /\ storOut = << [storage |-> "shared", node |-> 1], [storage |-> "local", node |-> 2] >>

\* C30: selectedIndex is never negative, and is below itemCount whenever the
\* list is not empty.
C30_SelectedIndexValid ==
  /\ selectedIndex >= 0
  /\ navItemCount > 0 => selectedIndex < navItemCount

\* C30 for the keys alone: on a list that is not empty a key takes a valid
\* index to a valid index, j wrapping from the last item to 0 and k from 0
\* to the last.
C30_KeysKeepValidOnNonEmptyList ==
  [][(nNavKeys' = nNavKeys + 1 /\ navItemCount > 0
        /\ selectedIndex >= 0 /\ selectedIndex < navItemCount)
       => (selectedIndex' >= 0 /\ selectedIndex' < navItemCount)]_vars

====
